---- MODULE Spec2Model ----
(***************************************************************************)
(* Ingestion pipeline of proyecto/backend: the upload handler              *)
(* (app/api/endpoints/ingestion.py) and the storage service it drives      *)
(* (app/services/databricks_service.py, app/services/monitoring_service.py)*)
(*                                                                         *)
(* Names are sequences of one-character strings, so that the sanitizer is  *)
(* computed character by character as the code computes it.                *)
(***************************************************************************)
EXTENDS Integers, Sequences, FiniteSets, TLC

(* ---------------------------------------------------------------------- *)
(* Bounds of the model                                                     *)
(* ---------------------------------------------------------------------- *)

\* number of calls of the upload handler in one behaviour
MaxUploads == 2

\* number of chunks loaded in one behaviour, all uploads together
MaxTotalChunks == 11

\* longest column name handed to the sanitizer under test
MaxNameLen == 3

\* longest sample text handed to the delimiter sniffer under test
MaxSampleLen == 4

\* connection objects sql.connect may hand out while activities overlap
MaxConnects == 3

\* chunks of the load that overlaps with the background task
MaxLoaderChunks == 2

\* calls of log_event the background task makes meanwhile
MaxEvents == 2

\* runs of equal bytes a file under test is made of
MaxFileRuns == 2

\* data lines of a CSV under test
MaxLines == 3

\* sampled cells of a column given to infer_sql_type
MaxSamples == 2

\* runs of equal characters in the text of a cell
MaxCellRuns == 2

\* calls of the connection methods made one after another
MaxCalls == 4

\* cleaning jobs started
MaxJobs == 2

(* ---------------------------------------------------------------------- *)
(* Characters                                                              *)
(* ---------------------------------------------------------------------- *)

LowerLetters ==
    {"a", "b", "c", "d", "e", "f", "g", "h", "i", "j", "k", "l", "m",
     "n", "o", "p", "q", "r", "s", "t", "u", "v", "w", "x", "y", "z"}
UpperLetters == {"A", "B", "X"}
Digits == {"1"}
Spaces == {" ", "\t"}

\* letters outside ASCII: str.lower() and str.isalnum() know them
NonAsciiLower == {"é"}
NonAsciiUpper == {"É"}

\* str.lower() on one character
Lower(c) ==
    IF c = "A" THEN "a" ELSE IF c = "B" THEN "b" ELSE IF c = "X" THEN "x"
    ELSE IF c = "É" THEN "é" ELSE c

\* \w of the re module on a str pattern: every Unicode letter, every
\* digit and the underscore
IsWord(c) ==
    c \in LowerLetters \cup UpperLetters \cup NonAsciiLower
          \cup NonAsciiUpper \cup Digits \cup {"_"}

\* \s of the re module
IsSpace(c) == c \in Spaces

RECURSIVE MapLower(_)
MapLower(s) == IF s = <<>> THEN <<>> ELSE <<Lower(Head(s))>> \o MapLower(Tail(s))

\* s.strip(chars): drop the characters of chars at both ends
RECURSIVE LStrip(_, _)
LStrip(s, chars) ==
    IF s # <<>> /\ Head(s) \in chars THEN LStrip(Tail(s), chars) ELSE s

RECURSIVE RStrip(_, _)
RStrip(s, chars) ==
    IF s # <<>> /\ s[Len(s)] \in chars
    THEN RStrip(SubSeq(s, 1, Len(s) - 1), chars) ELSE s

Strip(s, chars) == RStrip(LStrip(s, chars), chars)

\* re.sub(r'[^\w\s]', '_', s)
RECURSIVE SubNonWord(_)
SubNonWord(s) ==
    IF s = <<>> THEN <<>>
    ELSE <<IF IsWord(Head(s)) \/ IsSpace(Head(s)) THEN Head(s) ELSE "_">>
         \o SubNonWord(Tail(s))

\* re.sub(r'\s+', '_', s): every run of whitespace becomes one underscore
RECURSIVE SubSpaceRuns(_)
SubSpaceRuns(s) ==
    IF s = <<>> THEN <<>>
    ELSE IF IsSpace(Head(s))
         THEN <<"_">> \o SubSpaceRuns(LStrip(s, Spaces))
         ELSE <<Head(s)>> \o SubSpaceRuns(Tail(s))

\* re.sub(r'\+', '', s)
RECURSIVE SubPlus(_)
SubPlus(s) ==
    IF s = <<>> THEN <<>>
    ELSE IF Head(s) = "+" THEN SubPlus(Tail(s))
         ELSE <<Head(s)>> \o SubPlus(Tail(s))

unnamed_column ==
    <<"u", "n", "n", "a", "m", "e", "d", "_", "c", "o", "l", "u", "m", "n">>

\* a sanitizer that tests for the leading digit before it strips the
\* underscores
sanitize_column_name_PrefixBeforeStrip(column_name) ==
    LET c0 == Strip(MapLower(column_name), Spaces)
        c1 == SubNonWord(c0)
        c2 == SubSpaceRuns(c1)
        c3 == SubPlus(c2)
        c4 == IF c3 # <<>> /\ c3[1] \in Digits
              THEN <<"c", "o", "l", "_">> \o c3 ELSE c3
        c5 == Strip(c4, {"_"})
    IN  IF c5 # <<>> THEN c5 ELSE unnamed_column

\* DatabricksService.sanitize_column_name
sanitize_column_name(column_name) ==
    LET c0 == Strip(MapLower(column_name), Spaces)
        c1 == SubNonWord(c0)
        c2 == SubSpaceRuns(c1)
        c3 == SubPlus(c2)
        c4 == Strip(c3, {"_"})
        c5 == IF c4 # <<>> /\ c4[1] \in Digits
              THEN <<"c", "o", "l", "_">> \o c4 ELSE c4
    IN  IF c5 # <<>> THEN c5 ELSE unnamed_column

\* str.replace(old, ''): remove every occurrence of old, left to right
RECURSIVE RemoveAll(_, _)
RemoveAll(s, old) ==
    IF Len(s) < Len(old) THEN s
    ELSE IF SubSeq(s, 1, Len(old)) = old
         THEN RemoveAll(SubSeq(s, Len(old) + 1, Len(s)), old)
         ELSE <<Head(s)>> \o RemoveAll(Tail(s), old)

\* DatabricksService.sanitize_table_name
sanitize_table_name(filename) ==
    LET n1 == RemoveAll(filename, <<".", "c", "s", "v">>)
        n2 == RemoveAll(n1, <<".", "C", "S", "V">>)
        n3 == RemoveAll(n2, <<".", "x", "l", "s", "x">>)
        n4 == RemoveAll(n3, <<".", "x", "l", "s">>)
        n5 == RemoveAll(n4, <<".", "j", "s", "o", "n">>)
    IN  sanitize_column_name(n5)


(* ---------------------------------------------------------------------- *)
(* Sequences helpers                                                       *)
(* ---------------------------------------------------------------------- *)

Range(s) == {s[k] : k \in 1..Len(s)}

HasDuplicates(s) == \E a, b \in 1..Len(s) : a # b /\ s[a] = s[b]

Min(a, b) == IF a < b THEN a ELSE b

(* ---------------------------------------------------------------------- *)
(* Program constants                                                       *)
(* ---------------------------------------------------------------------- *)

\* _insert_bulk_optimized: chunk_size = 20000
chunk_size == 20000

\* validate_schema: max_size = 500 * 1024 * 1024
max_size == 500 * 1024 * 1024

\* validate_schema: allowed_extensions
allowed_extensions ==
    { <<".", "c", "s", "v">>, <<".", "x", "l", "s", "x">>,
      <<".", "x", "l", "s">>, <<".", "j", "s", "o", "n">> }

\* the two metadata columns appended to every table and every frame
ingestion_id_col ==
    <<"_", "i", "n", "g", "e", "s", "t", "i", "o", "n", "_", "i", "d">>
processed_at_col ==
    <<"_", "p", "r", "o", "c", "e", "s", "s", "e", "d", "_", "a", "t">>
system_columns == <<ingestion_id_col, processed_at_col>>

(* ---------------------------------------------------------------------- *)
(* Inputs                                                                  *)
(* ---------------------------------------------------------------------- *)

\* file names submitted to the upload handler
File_a_csv == <<"a", ".", "c", "s", "v">>
File_a_txt == <<"a", ".", "t", "x", "t">>
File_dot_csv == <<".", "c", "s", "v">>
Filenames == {File_a_csv, File_a_txt, File_dot_csv}

\* byte sizes of the submitted body
Sizes == {0, 1, max_size + 1}

\* frames produced by the decoder: source column names and number of rows
Frames ==
    { [cols |-> << <<"x">> >>, nrows |-> 0],
      [cols |-> << <<"x">> >>, nrows |-> 1],
      [cols |-> << <<"x">>, <<"b", " ", "1">> >>, nrows |-> chunk_size + 1],
      [cols |-> << <<"x">>, <<"X">> >>, nrows |-> 1],
      [cols |-> << <<"x">> >>, nrows |-> 10 * chunk_size] }

\* what read_file_universal hands back: a frame, or an exception
NoFrame == [cols |-> <<>>, nrows |-> 0]
ParseOutcomes ==
    {[raised |-> FALSE, df |-> f] : f \in Frames}
    \cup {[raised |-> TRUE, df |-> NoFrame]}

\* number of chunks range(0, len(df), chunk_size) iterates over
NumChunks(nrows) == (nrows + chunk_size - 1) \div chunk_size

\* rows of the slice df.iloc[i:i+chunk_size]
ChunkLen(nrows, i) == Min(chunk_size, nrows - i)

(* ---------------------------------------------------------------------- *)
(* validate_schema                                                         *)
(* ---------------------------------------------------------------------- *)

\* position of the last "." of s, 0 when there is none
RECURSIVE LastDot(_)
LastDot(s) ==
    IF s = <<>> THEN 0
    ELSE IF s[Len(s)] = "." THEN Len(s)
         ELSE LastDot(SubSeq(s, 1, Len(s) - 1))

\* os.path.splitext(filename)[1]: from the last dot on, unless only dots
\* come before it
splitext_ext(filename) ==
    LET d == LastDot(filename)
    IN  IF d = 0 \/ LStrip(SubSeq(filename, 1, d - 1), {"."}) = <<>>
        THEN <<>>
        ELSE SubSeq(filename, d, Len(filename))

\* a validator without the test for an empty body
validate_schema_NoEmptyCheck(filename, size) ==
    IF MapLower(splitext_ext(filename)) \notin allowed_extensions
    THEN "bad_extension"
    ELSE IF size > max_size THEN "too_large"
    ELSE "OK"

\* validate_schema(filename, size): "OK" or the reason of the rejection
validate_schema(filename, size) ==
    IF MapLower(splitext_ext(filename)) \notin allowed_extensions
    THEN "bad_extension"
    ELSE IF size > max_size THEN "too_large"
    ELSE IF size = 0 THEN "empty"
    ELSE "OK"


(* ---------------------------------------------------------------------- *)
(* detect_csv_delimiter                                                    *)
(* ---------------------------------------------------------------------- *)

\* str.count(c) for a one-character c
RECURSIVE Count(_, _)
Count(s, c) ==
    IF s = <<>> THEN 0
    ELSE (IF Head(s) = c THEN 1 ELSE 0) + Count(Tail(s), c)

\* the keys of the dictionary delimiters, in the order they are inserted
delimiters == <<",", ";", "\t", "|">>

\* max(keys, key=...): the keys are visited in order and the best one so
\* far is replaced only by a key that counts strictly more
RECURSIVE MaxByCount(_, _, _)
MaxByCount(keys, best, s) ==
    IF keys = <<>> THEN best
    ELSE MaxByCount(Tail(keys),
                    IF Count(s, Head(keys)) > Count(s, best)
                    THEN Head(keys) ELSE best,
                    s)

\* a maximum that lets a later key of equal count win
RECURSIVE MaxByCount_LastWins(_, _, _)
MaxByCount_LastWins(keys, best, s) ==
    IF keys = <<>> THEN best
    ELSE MaxByCount_LastWins(Tail(keys),
                             IF Count(s, Head(keys)) >= Count(s, best)
                             THEN Head(keys) ELSE best,
                             s)

\* a sniffer whose ties go to the last delimiter
detect_csv_delimiter_LastWins(content_sample) ==
    MaxByCount_LastWins(Tail(delimiters), Head(delimiters), content_sample)

\* detect_csv_delimiter(content_sample)
detect_csv_delimiter(content_sample) ==
    MaxByCount(Tail(delimiters), Head(delimiters), content_sample)

(* ---------------------------------------------------------------------- *)
(* detect_encoding_smart and the decoding of a CSV                         *)
(* ---------------------------------------------------------------------- *)

\* detect_encoding_smart: sample_size = 100000
sample_size == 100000

\* detect_encoding_smart: "if confidence < 0.7", in hundredths
confidence_threshold == 70

\* A file is a sequence of runs [b, n]: n times the byte b. The bytes:
\* "a" an ASCII letter, "C3" and "E9" the lead bytes of a two-byte and of a
\* three-byte UTF-8 sequence, "A9" and "81" continuation bytes; E9 is a
\* letter in latin-1 and cp1252, 81 is not assigned in cp1252.
AsciiBytes == {"a"}
ContinuationBytes == {"A9", "81"}
FileBytes == {"a", "C3", "E9", "A9", "81"}

\* continuation bytes a UTF-8 lead byte asks for
LeadNeeds(b) == IF b = "C3" THEN 1 ELSE 2

\* file_content[:k] on runs
RECURSIVE TakeBytes(_, _)
TakeBytes(runs, k) ==
    IF runs = <<>> \/ k <= 0 THEN <<>>
    ELSE IF Head(runs).n >= k THEN <<[b |-> Head(runs).b, n |-> k]>>
    ELSE <<Head(runs)>> \o TakeBytes(Tail(runs), k - Head(runs).n)

\* bytes.decode('utf-8') succeeds; need is the number of continuation
\* bytes the sequence being read still lacks
RECURSIVE Utf8Decodes(_, _)
Utf8Decodes(runs, need) ==
    IF runs = <<>> THEN need = 0
    ELSE LET r == Head(runs)
         IN  IF r.b \in AsciiBytes
             THEN need = 0 /\ Utf8Decodes(Tail(runs), 0)
             ELSE IF r.b \in ContinuationBytes
             THEN r.n <= need /\ Utf8Decodes(Tail(runs), need - r.n)
             ELSE /\ need = 0
                  /\ r.n = 1
                  /\ Utf8Decodes(Tail(runs), LeadNeeds(r.b))

\* bytes.decode(enc) succeeds, for the codec names the program meets: the
\* four of its fallback list and the names the detector reports
Decodes(runs, enc) ==
    CASE enc \in {"utf-8"} -> Utf8Decodes(runs, 0)
      [] enc \in {"ascii"} ->
            \A k \in 1..Len(runs) : runs[k].b \in AsciiBytes
      [] enc \in {"latin-1", "iso-8859-1", "ISO-8859-1"} -> TRUE
      [] enc \in {"cp1252", "Windows-1252"} ->
            \A k \in 1..Len(runs) : runs[k].b # "81"

\* the loop over ['utf-8', 'latin-1', 'iso-8859-1', 'cp1252']: the first
\* that decodes the sample, 'latin-1' when none does
RECURSIVE FirstDecoding(_, _)
FirstDecoding(encs, sample) ==
    IF encs = <<>> THEN "latin-1"
    ELSE IF Decodes(sample, Head(encs)) THEN Head(encs)
         ELSE FirstDecoding(Tail(encs), sample)

\* detect_encoding_smart(file_content); guess and confidence are what
\* chardet.detect reports for the sample, guess "" standing for None
detect_encoding_smart(file_content, guess, confidence) ==
    LET sample == TakeBytes(file_content, sample_size)
    IN  IF confidence < confidence_threshold
        THEN FirstDecoding(<<"utf-8", "latin-1", "iso-8859-1", "cp1252">>,
                           sample)
        ELSE IF guess # "" THEN guess ELSE "utf-8"

(* ---------------------------------------------------------------------- *)
(* read_file_universal: the lines of a CSV and the issues list             *)
(* ---------------------------------------------------------------------- *)

\* The data lines of a CSV with a header of two fields: "x" and "y" are
\* two different complete lines, "short" lacks its second field, "long"
\* has a field too many.
LineKinds == {"x", "y", "short", "long"}

\* pd.read_csv(..., on_bad_lines='skip', engine='python'): a line with
\* more fields than the header is dropped, a line with fewer is kept and
\* padded with NaN
RECURSIVE KeptLines(_)
KeptLines(lines) ==
    IF lines = <<>> THEN <<>>
    ELSE IF Head(lines) = "long" THEN KeptLines(Tail(lines))
         ELSE <<Head(lines)>> \o KeptLines(Tail(lines))

\* df.duplicated().sum(): rows equal to an earlier row
Duplicated(rows) ==
    Cardinality({k \in 1..Len(rows) : \E j \in 1..(k - 1) : rows[j] = rows[k]})

\* df.isnull().sum() of the second column
NullCount(rows) == Cardinality({k \in 1..Len(rows) : rows[k] = "short"})

\* lines 157-166: metadata["issues"], one entry when there are duplicates
\* and one for a column with more than 50% nulls
Issues(rows) ==
    (IF Duplicated(rows) > 0 THEN <<"duplicados">> ELSE <<>>)
    \o (IF NullCount(rows) > 0 /\ NullCount(rows) * 100 > 50 * Len(rows)
        THEN <<"nulos">> ELSE <<>>)

(* ---------------------------------------------------------------------- *)
(* infer_sql_type: the SQL type of a column                                *)
(* ---------------------------------------------------------------------- *)

\* df[col].head(100)
sample_rows == 100

\* a null cell (None / NaN), told apart from every text by pd.notna
NaN == <<"NaN">>

\* str(dtype) of a pandas column
Dtypes == {"object", "int64", "float64", "bool", "datetime64[ns]"}

\* cells of a text column: two dates, a date followed by more text, plain
\* text, the empty text, and a null
Iso_date == <<"2", "0", "2", "4", "-", "0", "1", "-", "0", "2">>
Us_date == <<"0", "1", "/", "0", "2", "/", "2", "0", "2", "4">>
SampleCells ==
    {Iso_date, Us_date, Iso_date \o <<"a">>, <<"a", "b">>, <<>>, NaN}

\* the characters \d matches in the cells
DecimalDigits == {"0", "1", "2", "3", "4", "5", "6", "7", "8", "9"}

\* re.match(pattern, s) for a pattern of \d and literal characters: the
\* pattern is matched at the start of s, what follows is not looked at
ReMatch(pattern, s) ==
    /\ Len(s) >= Len(pattern)
    /\ \A i \in 1..Len(pattern) :
          IF pattern[i] = "d" THEN s[i] \in DecimalDigits
          ELSE s[i] = pattern[i]

\* r'\d{4}-\d{2}-\d{2}' and r'\d{2}/\d{2}/\d{4}', d standing for \d
iso_pattern == <<"d", "d", "d", "d", "-", "d", "d", "-", "d", "d">>
us_pattern == <<"d", "d", "/", "d", "d", "/", "d", "d", "d", "d">>

\* [v for v in sample_values if pd.notna(v)]
NonNull(values) == SelectSeq(values, LAMBDA v : v # NaN)

\* 'sub' in dtype_str for the substrings the code looks for
DtypeHas(dtype, sub) ==
    CASE sub = "int" -> dtype = "int64"
      [] sub = "float" -> dtype = "float64"
      [] sub = "bool" -> dtype = "bool"
      [] sub = "date" -> dtype = "datetime64[ns]"
      [] OTHER -> FALSE

infer_sql_type(dtype, sample_values) ==
    LET non_null_samples == NonNull(sample_values)
    IN  IF DtypeHas(dtype, "int") THEN "BIGINT"
        ELSE IF DtypeHas(dtype, "float") THEN "DOUBLE"
        ELSE IF DtypeHas(dtype, "bool") THEN "BOOLEAN"
        ELSE IF DtypeHas(dtype, "date") THEN "TIMESTAMP"
        ELSE IF /\ non_null_samples # <<>>
                /\ \/ ReMatch(iso_pattern, non_null_samples[1])
                   \/ ReMatch(us_pattern, non_null_samples[1])
             THEN "DATE"
             ELSE "STRING"

\* df[col].head(100).tolist()
HeadSample(column) == SubSeq(column, 1, Min(Len(column), sample_rows))


(* ---------------------------------------------------------------------- *)
(* _insert_bulk_optimized: the SQL literal of a cell                       *)
(* ---------------------------------------------------------------------- *)

\* a cell of the frame: its Python type, and its value in the field of
\* that type; a text is a sequence of runs [c |-> character, n |-> count]
NoCell == [kind |-> "none", b |-> FALSE, n |-> 0, text |-> <<>>]
CellRuns == {[c |-> x, n |-> k] : x \in {"a", "'", "\\"}, k \in {1, 20001}}

\* number of characters of a text
RECURSIVE RunsLen(_)
RunsLen(runs) ==
    IF runs = <<>> THEN 0 ELSE Head(runs).n + RunsLen(Tail(runs))

\* str.replace(ch, ch + ch): every ch becomes two
ReplaceDoubling(runs, ch) ==
    [i \in 1..Len(runs) |->
        IF runs[i].c = ch THEN [runs[i] EXCEPT !.n = 2 * runs[i].n]
        ELSE runs[i]]

\* the literal appended to values for one cell: its form, the number for
\* a numeric literal, the text between the quotes for a quoted one
encode_cell(val) ==
    IF val.kind = "null" THEN [form |-> "NULL", n |-> 0, body |-> <<>>]
    ELSE IF val.kind = "bool"
    THEN [form |-> IF val.b THEN "TRUE" ELSE "FALSE", n |-> 0, body |-> <<>>]
    ELSE IF val.kind \in {"int", "float"}
    THEN [form |-> "number", n |-> val.n, body |-> <<>>]
    ELSE IF val.kind = "datetime"
    THEN [form |-> "timestamp", n |-> val.n, body |-> <<>>]
    ELSE [form |-> "quoted", n |-> 0,
          body |-> ReplaceDoubling(ReplaceDoubling(val.text, "'"), "\\")]

(* ---------------------------------------------------------------------- *)
(* State                                                                   *)
(* ---------------------------------------------------------------------- *)

VARIABLES
    configured,         \* DatabricksService.is_configured()
    staging_reachable,  \* environment: the Volume / DBFS staging area answers
    sql_connection,     \* DatabricksService.sql_connection: None, open, closed
    tables,             \* storage catalog: table name -> column names
    uploaded_files_db,  \* ingestion.uploaded_files_db
    hist,               \* per ingestion id: what happened to that upload
    pc,                 \* position of the upload handler
    job,                \* locals of upload_covid_data
    ld,                 \* locals of _insert_bulk_optimized
    response,           \* last answer of the upload handler
    last_status,        \* answer of the status endpoint to the latest query
                        \* made since the last submission
    last_call,          \* what the latest call of the upload handler was
                        \* given and did before and after the load
    fn,                 \* a pure function under test: argument and results
    conn_id,            \* identity of the object held in sql_connection
    closed_ids,         \* connection objects on which close() was called
    threads,            \* activities sharing the DatabricksService singleton
    cleaning_jobs,      \* cleaning_service.cleaning_jobs: job id -> job
    tasks,              \* position of each job's simulate_cleaning_process
    cancelled,          \* jobs whose cancel_job call answered with success
    status_answer       \* last answer of get_cleaning_status

vars ==
    <<configured, staging_reachable, sql_connection, tables,
      uploaded_files_db, hist, pc, job, ld, response, last_status,
      last_call, fn, conn_id, closed_ids, threads,
      cleaning_jobs, tasks, cancelled, status_answer>>

\* the state of the upload and status handlers
ingestVars ==
    <<staging_reachable, tables, uploaded_files_db, hist, pc, job, ld,
      response, last_status, last_call>>

\* the state of the pure functions under test
fnVars == <<fn>>

\* the state of the activities that share the connection
concVars == <<conn_id, closed_ids, threads>>

\* the state of the cleaning jobs
cleanVars == <<cleaning_jobs, tasks, cancelled, status_answer>>

\* no answer of the cleaning status endpoint yet
NoAnswer == [job_id |-> 0, code |-> 0, status |-> "None", cancelled |-> FALSE]

NoTable == <<>>

NoResult ==
    [present |-> FALSE, total |-> 0, success |-> 0, errors |-> 0,
     table_name |-> NoTable, method |-> "None"]

NoJob ==
    [ingestion_id |-> 0, filename |-> <<>>, file_size |-> 0, df |-> NoFrame,
     table_name |-> NoTable, result |-> NoResult]

NoLoad ==
    [i |-> 0, success_count |-> 0, column_names |-> <<>>, log |-> <<>>,
     attempted |-> <<>>]

NoResponse ==
    [code |-> 0, ingestion_id |-> 0, records_count |-> 0, status |-> "None"]

NoStatus ==
    [code |-> 0, ingestion_id |-> 0, status |-> "None", records |-> 0,
     method |-> "None"]

\* what the model remembers of one upload, indexed by its ingestion id
NewHist(df) ==
    [df |-> df, table_name |-> NoTable,
     ddl |-> "none", created |-> FALSE, existed |-> FALSE,
     load_trace |-> <<"NotStarted">>,
     issued |-> FALSE, landed |-> 0, failed_chunks |-> 0,
     transient |-> FALSE, outcome |-> "running"]

\* no call of the upload handler yet
NoCall ==
    [called |-> FALSE, filename |-> <<>>, size |-> 0, ingestion_id |-> 0,
     decoded |-> FALSE, audit |-> <<>>]

\* no function applied
NoFn == [op |-> "none", done |-> FALSE]

\* a call of a function under test, before its input is filled in
FnCall ==
    [op |-> "none", arg |-> <<>>, file |-> <<>>, samples |-> <<>>, guess |-> "",
     cell |-> NoCell, lit |-> [form |-> "", n |-> 0, body |-> <<>>],
     create_cols |-> <<>>, insert_cols |-> <<>>,
     confidence |-> 0, done |-> FALSE, raised |-> FALSE, out |-> <<>>,
     again |-> <<>>]

\* the activities that use the DatabricksService singleton: the load loop
\* of upload_covid_data on the event loop, and monitoring_service.log_event
\* called by simulate_cleaning_process on a worker thread
Activities == {"loader", "log_event"}

\* an activity that is not running; cursor is the connection object its
\* statement is executing on, 0 when it executes none
ThreadOff == [pc |-> "off", cursor |-> 0, todo |-> 0, retry |-> FALSE]

RECURSIVE UsedChunks(_)
UsedChunks(h) ==
    IF h = <<>> THEN 0
    ELSE NumChunks(Head(h).df.nrows) + UsedChunks(Tail(h))

Init ==
    /\ configured \in BOOLEAN
    /\ staging_reachable \in BOOLEAN
    /\ sql_connection = "None"
    /\ tables = <<>>
    /\ uploaded_files_db = <<>>
    /\ hist = <<>>
    /\ pc = "idle"
    /\ job = NoJob
    /\ ld = NoLoad
    /\ response = NoResponse
    /\ last_status = NoStatus
    /\ last_call = NoCall
    /\ fn = NoFn
    /\ conn_id = 0
    /\ closed_ids = {}
    /\ threads = [a \in Activities |-> ThreadOff]
    /\ cleaning_jobs = <<>>
    /\ tasks = <<>>
    /\ cancelled = {}
    /\ status_answer = NoAnswer

(* ---------------------------------------------------------------------- *)
(* DatabricksService: connection                                           *)
(* ---------------------------------------------------------------------- *)

\* connect(): the return value, ok is the answer of sql.connect
connect_returns(ok) == configured /\ ok

\* connect(): self.sql_connection afterwards
connect_conn(conn, ok) == IF configured /\ ok THEN "open" ELSE conn

\* disconnect(): closes the connection held, the attribute keeps the object
disconnect_conn(conn) == IF conn = "None" THEN "None" ELSE "closed"

\* ensure_connected(): connects only when no connection object is held
ensure_connected_conn(conn, ok) ==
    IF conn = "None" THEN connect_conn(conn, ok) ELSE conn

ensure_connected_returns(conn, ok) ==
    IF conn = "None" THEN connect_returns(ok) ELSE TRUE

\* execute_query(query): "skipped" when ensure_connected() is False (returns
\* [] without running anything), "raised" when the cursor or the statement
\* fails, "ok" when the engine ran the statement
execute_query(conn, ok, accepted) ==
    IF ~ensure_connected_returns(conn, ok) THEN "skipped"
    ELSE IF ensure_connected_conn(conn, ok) = "open" /\ accepted THEN "ok"
    ELSE "raised"


(* ---------------------------------------------------------------------- *)
(* Storage engine                                                          *)
(* ---------------------------------------------------------------------- *)

\* the engine takes an INSERT with an explicit column list when the table
\* exists, no column is named twice and every named column is a column of
\* the table
InsertAccepted(table, column_names) ==
    /\ table \in DOMAIN tables
    /\ ~HasDuplicates(column_names)
    /\ Range(column_names) \subseteq Range(tables[table])

\* CREATE TABLE IF NOT EXISTS: nothing to do when the table exists, else
\* the column list must not name a column twice
CreateAccepted(table, columns) ==
    table \in DOMAIN tables \/ ~HasDuplicates(columns)

(* ---------------------------------------------------------------------- *)
(* upload_covid_data                                                       *)
(* ---------------------------------------------------------------------- *)

RECURSIVE SanitizeAll(_)
SanitizeAll(cols) ==
    IF cols = <<>> THEN <<>>
    ELSE <<sanitize_column_name(Head(cols))>> \o SanitizeAll(Tail(cols))

\* a CREATE statement that leaves the two metadata columns out
CreateColumns_NoSystem(df) == SanitizeAll(df.cols)

\* create_dynamic_table_from_df: columns_sql, names only
CreateColumns(df) == SanitizeAll(df.cols) \o system_columns

\* df[name] = value: a frame that has the column keeps its columns, any
\* other frame gets the column at the end
AssignColumn(cols, name) ==
    IF name \in Range(cols) THEN cols ELSE Append(cols, name)

\* a loader that forgets to rename the columns of its copy
InsertColumns_NotRenamed(df) ==
    AssignColumn(AssignColumn(df.cols, ingestion_id_col), processed_at_col)

\* insert_dataframe_ultra_fast: df_clean.columns after the renaming and
\* the two assignments, which _insert_bulk_optimized joins into the
\* column list of every INSERT
InsertColumns(df) ==
    AssignColumn(AssignColumn(SanitizeAll(df.cols), ingestion_id_col),
                 processed_at_col)

\* a provisioner that does not look at the rows of DESCRIBE TABLE
DescribeVerified_Always(result) == TRUE

\* create_dynamic_table_from_df: "if result:" on the rows of DESCRIBE TABLE
DescribeVerified(result) == result # <<>>

\* the handler leaves through an exception: HTTPException(code)
Raise(code, outcome, h) ==
    /\ response' = [code |-> code, ingestion_id |-> 0, records_count |-> 0,
                    status |-> "error"]
    /\ hist' = [hist EXCEPT ![job.ingestion_id] = [h EXCEPT !.outcome = outcome]]
    /\ pc' = "idle"
    /\ job' = NoJob
    /\ ld' = NoLoad

\* crear_id_ingesta(): a fresh identifier at every call
crear_id_ingesta == Len(hist) + 1

\* lines 194-231: id, read, validate, decode, empty check, is_configured
UploadBegin(filename, size, parsed) ==
    /\ pc = "idle"
    /\ Len(hist) < MaxUploads
    /\ UsedChunks(hist) + NumChunks(parsed.df.nrows) <= MaxTotalChunks
    /\ LET id == crear_id_ingesta
           v == validate_schema(filename, size)
           \* decoded: read_file_universal was called
           call(decoded) ==
               [NoCall EXCEPT !.called = TRUE, !.filename = filename,
                              !.size = size, !.ingestion_id = id,
                              !.decoded = decoded]
           rejected(code, outcome, decoded) ==
               /\ response' = [code |-> code, ingestion_id |-> 0,
                               records_count |-> 0, status |-> "error"]
               /\ hist' = Append(hist, [NewHist(NoFrame)
                                           EXCEPT !.outcome = outcome])
               /\ last_call' = call(decoded)
               /\ UNCHANGED <<pc, job>>
       IN  IF v # "OK" THEN rejected(400, "rejected", FALSE)
           ELSE IF parsed.raised THEN rejected(500, "failed", TRUE)
           ELSE IF parsed.df.nrows = 0 THEN rejected(400, "rejected", TRUE)
           ELSE /\ last_call' = call(TRUE)
                /\ job' = [NoJob EXCEPT !.ingestion_id = id,
                                        !.filename = filename,
                                        !.file_size = size,
                                        !.df = parsed.df]
                /\ hist' = Append(hist, NewHist(parsed.df))
                /\ pc' = IF configured THEN "setup" ELSE "register"
                /\ UNCHANGED response
    /\ last_status' = NoStatus
    /\ UNCHANGED <<cleanVars, fnVars, concVars,
                   configured, staging_reachable, sql_connection, tables,
                   uploaded_files_db, ld>>

\* setup_database(): every statement goes through execute_query, every
\* error is swallowed; the only lasting effect is the connection
SetupDatabase(connOk) ==
    /\ pc = "setup"
    /\ sql_connection' = ensure_connected_conn(sql_connection, connOk)
    /\ pc' = "create"
    /\ UNCHANGED <<cleanVars, fnVars, concVars, last_call,
                   configured, staging_reachable, tables, uploaded_files_db,
                   hist, job, ld, response, last_status>>

\* create_dynamic_table_from_df(df, filename, drop_if_exists=False)
CreateTable(connOk, engineOk, describe) ==
    /\ pc = "create"
    /\ LET id == job.ingestion_id
           name == sanitize_table_name(job.filename)
           cols == CreateColumns(job.df)
           existed == name \in DOMAIN tables
           accepted == engineOk /\ CreateAccepted(name, cols)
           created == IF existed THEN tables ELSE (name :> cols) @@ tables
           result == IF describe = "columns" THEN created[name] ELSE <<>>
           \* what the storage engine answered, whatever the code makes of it
           ddl == IF ~connect_returns(connOk) THEN "connect_failed"
                  ELSE IF ~accepted THEN "create_rejected"
                  ELSE IF describe = "error" THEN "describe_error"
                  ELSE IF result = <<>> THEN "describe_empty"
                  ELSE "ok"
           h == [hist[id] EXCEPT !.table_name = name, !.existed = existed,
                                 !.ddl = ddl,
                                 !.created = connect_returns(connOk)
                                             /\ accepted /\ ~existed]
       IN  IF ~connect_returns(connOk)
           THEN /\ Raise(500, "failed", h)
                /\ UNCHANGED <<sql_connection, tables>>
           ELSE /\ sql_connection' = connect_conn(sql_connection, connOk)
                /\ IF ~accepted
                   THEN /\ Raise(500, "failed", h)
                        /\ UNCHANGED tables
                   ELSE /\ tables' = created
                        /\ IF describe = "error" \/ ~DescribeVerified(result)
                           THEN Raise(500, "failed", h)
                           ELSE /\ job' = [job EXCEPT !.table_name = name]
                                /\ hist' = [hist EXCEPT ![id] = h]
                                /\ pc' = "raw"
                                /\ UNCHANGED <<ld, response>>
    /\ UNCHANGED <<cleanVars, fnVars, concVars, last_call,
                   configured, staging_reachable, uploaded_files_db,
                   last_status>>

\* insert_raw_data(): one INSERT into raw_data, errors swallowed
InsertRaw ==
    /\ pc = "raw"
    /\ pc' = "load"
    /\ UNCHANGED <<cleanVars, fnVars, concVars, last_call,
                   configured, staging_reachable, sql_connection, tables,
                   uploaded_files_db, hist, job, ld, response, last_status>>


(* ---------------------------------------------------------------------- *)
(* insert_dataframe_ultra_fast / _insert_bulk_optimized                    *)
(* ---------------------------------------------------------------------- *)

\* lines 443-480: the frame is copied, renamed and given the two metadata
\* columns, then handed to the batched loader; no staging, no bulk-load
\* statement
LoadStart ==
    /\ pc = "load"
    /\ ld' = [NoLoad EXCEPT !.column_names = InsertColumns(job.df)]
    /\ hist' = [hist EXCEPT ![job.ingestion_id].load_trace =
                                Append(@, "FallbackAttempt")]
    /\ pc' = IF job.df.nrows > 0 THEN "chunk" ELSE "return"
    /\ UNCHANGED <<cleanVars, fnVars, concVars, last_call,
                   configured, staging_reachable, sql_connection, tables,
                   uploaded_files_db, job, response, last_status>>

\* a loop whose slices overlap by one row
NextOffset_Overlap(i) == i + chunk_size - 1

\* range(0, len(df), chunk_size): the offset after i
NextOffset(i) == i + chunk_size

\* where the loop goes once the chunk at offset i is settled
AfterChunk(i) == IF NextOffset(i) < job.df.nrows THEN "chunk" ELSE "return"

\* a loader that resubmits the statement on the connection that just failed
AfterFirstRaised_NoReconnect == "retry"

\* except-clause of the first attempt: where a raised INSERT leads
AfterFirstRaised == "disconnect"

\* a loader that gives up the whole load when a chunk fails twice
AfterRetryRaised_Abort(i) == "return"

\* except-clause of the retry: where a second raised INSERT leads
AfterRetryRaised(i) == AfterChunk(i)

\* a loader that counts a full chunk whatever the length of the slice
Counted_FullChunk(success_count, i) == success_count + chunk_size

\* success_count += len(chunk)
Counted(success_count, i) == success_count + ChunkLen(job.df.nrows, i)

\* lines 483-524: ensure_connected, build the VALUES, first execute_query
ChunkFirst(k1, k2, engineOk) ==
    /\ pc = "chunk"
    /\ LET id == job.ingestion_id
           h == hist[id]
           table == job.table_name
           c1 == ensure_connected_conn(sql_connection, k1)
           accepted == engineOk /\ InsertAccepted(table, ld.column_names)
           out == execute_query(c1, k2, accepted)
           n == ChunkLen(job.df.nrows, ld.i)
       IN  IF HasDuplicates(ld.column_names)
           THEN \* row[col] is a Series, "if pd.isna(val)" raises ValueError
                /\ Raise(500, "failed",
                         [h EXCEPT !.load_trace = Append(@, "Failed")])
                /\ sql_connection' = c1
           ELSE /\ sql_connection' = ensure_connected_conn(c1, k2)
                /\ hist' = [hist EXCEPT ![id] =
                     [h EXCEPT !.issued = TRUE,
                               !.landed = IF out = "ok" THEN @ + n ELSE @,
                               !.transient =
                                   @ \/ (out = "raised" /\
                                         InsertAccepted(table, ld.column_names))]]
                /\ ld' = [ld EXCEPT
                            !.attempted = Append(@, ld.i),
                            !.log = <<out>>,
                            !.success_count =
                                IF out = "raised" THEN @ ELSE Counted(@, ld.i),
                            !.i = IF out = "raised" THEN @ ELSE NextOffset(@)]
                /\ pc' = IF out = "raised" THEN AfterFirstRaised
                         ELSE AfterChunk(ld.i)
                /\ UNCHANGED <<job, response>>
    /\ UNCHANGED <<cleanVars, fnVars, concVars, last_call,
                   configured, staging_reachable, tables, uploaded_files_db,
                   last_status>>

\* line 528: self.disconnect()
ChunkDisconnect ==
    /\ pc = "disconnect"
    /\ sql_connection' = disconnect_conn(sql_connection)
    /\ ld' = [ld EXCEPT !.log = Append(@, "disconnect")]
    /\ pc' = "reconnect"
    /\ UNCHANGED <<cleanVars, fnVars, concVars, last_call,
                   configured, staging_reachable, tables, uploaded_files_db,
                   hist, job, response, last_status>>

\* line 529: self.connect(), the return value is not looked at
ChunkReconnect(connOk) ==
    /\ pc = "reconnect"
    /\ sql_connection' = connect_conn(sql_connection, connOk)
    /\ ld' = [ld EXCEPT !.log = Append(@, IF connect_returns(connOk)
                                           THEN "connect_ok"
                                           ELSE "connect_failed")]
    /\ pc' = "retry"
    /\ UNCHANGED <<cleanVars, fnVars, concVars, last_call,
                   configured, staging_reachable, tables, uploaded_files_db,
                   hist, job, response, last_status>>

\* lines 530-535: second execute_query of the same statement
ChunkRetry(k, engineOk) ==
    /\ pc = "retry"
    /\ LET id == job.ingestion_id
           h == hist[id]
           table == job.table_name
           accepted == engineOk /\ InsertAccepted(table, ld.column_names)
           out == execute_query(sql_connection, k, accepted)
           n == ChunkLen(job.df.nrows, ld.i)
       IN  /\ sql_connection' = ensure_connected_conn(sql_connection, k)
           /\ hist' = [hist EXCEPT ![id] =
                [h EXCEPT !.landed = IF out = "ok" THEN @ + n ELSE @,
                          !.failed_chunks =
                              IF out = "raised" THEN @ + 1 ELSE @,
                          !.transient =
                              @ \/ (out = "raised" /\
                                    InsertAccepted(table, ld.column_names))]]
           /\ ld' = [ld EXCEPT
                       !.log = Append(@, out),
                       !.success_count =
                           IF out = "raised" THEN @ ELSE Counted(@, ld.i),
                       !.i = NextOffset(@)]
           /\ pc' = IF out = "raised" THEN AfterRetryRaised(ld.i)
                    ELSE AfterChunk(ld.i)
    /\ UNCHANGED <<cleanVars, fnVars, concVars, last_call,
                   configured, staging_reachable, tables, uploaded_files_db,
                   job, response, last_status>>

\* lines 537-550: the result dictionary
LoadResult(total, success_count, table) ==
    [present |-> TRUE, total |-> total, success |-> success_count,
     errors |-> total - success_count, table_name |-> table,
     method |-> "bulk_insert"]

LoadReturn ==
    /\ pc = "return"
    /\ job' = [job EXCEPT !.result =
                 LoadResult(job.df.nrows, ld.success_count, job.table_name)]
    /\ hist' = [hist EXCEPT ![job.ingestion_id].load_trace =
                                Append(@, "Succeeded")]
    /\ pc' = "audit"
    /\ UNCHANGED <<cleanVars, fnVars, concVars, last_call,
                   configured, staging_reachable, sql_connection, tables,
                   uploaded_files_db, ld, response, last_status>>


(* ---------------------------------------------------------------------- *)
(* upload_covid_data, after the load                                       *)
(* ---------------------------------------------------------------------- *)

\* an audit writer whose errors reach the caller
insert_audit_log_raises_Propagate(outcome) == outcome = "raised"

\* insert_audit_log(): "except Exception: ... return False", whatever
\* execute_query did never reaches the caller
insert_audit_log_raises(outcome) == FALSE

\* insert_audit_log(): one INSERT into audit_logs through execute_query
AuditLog(connOk, engineOk) ==
    /\ pc = "audit"
    /\ LET outcome == execute_query(sql_connection, connOk, engineOk)
       IN  /\ sql_connection' = ensure_connected_conn(sql_connection, connOk)
           /\ last_call' = [last_call EXCEPT !.audit = Append(@, outcome)]
           /\ IF insert_audit_log_raises(outcome)
              THEN Raise(500, "failed", hist[job.ingestion_id])
              ELSE /\ pc' = "register"
                   /\ UNCHANGED <<hist, job, ld, response>>
    /\ UNCHANGED <<cleanVars, fnVars, concVars,
                   configured, staging_reachable, tables,
                   uploaded_files_db, last_status>>

\* lines 322-333: the registry entry
FileInfo(j) ==
    [ingestion_id |-> j.ingestion_id,
     filename |-> j.filename,
     table_name |-> IF configured THEN j.table_name ELSE NoTable,
     size_bytes |-> j.file_size,
     records_count |-> j.df.nrows,
     method |-> IF j.result.present THEN j.result.method ELSE "None"]

\* line 335: uploaded_files_db.append(file_info)
Register ==
    /\ pc = "register"
    /\ uploaded_files_db' = Append(uploaded_files_db, FileInfo(job))
    /\ pc' = "log"
    /\ UNCHANGED <<cleanVars, fnVars, concVars, last_call,
                   configured, staging_reachable, sql_connection, tables,
                   hist, job, ld, response, last_status>>

\* lines 365-371: IngestionResponse(...)
SuccessResponse(j) ==
    [code |-> 200, ingestion_id |-> j.ingestion_id,
     records_count |-> j.df.nrows, status |-> "success"]

\* MonitoringService.log_event: the storage write. Nothing is written when
\* connect() returns False; an INSERT the engine rejects is caught
log_event_write(connOk, engineOk) ==
    IF ~connect_returns(connOk) THEN "connect_failed"
    ELSE execute_query("open", connOk, engineOk)

\* lines 338-371: monitoring_service.log_event(...), then the response.
\* The message of the event reads result.get('method'), which raises when
\* result is None; log_event connects, writes and disconnects.
LogEventAndRespond(connOk, engineOk) ==
    /\ pc = "log"
    /\ IF ~job.result.present
       THEN /\ Raise(500, "failed", hist[job.ingestion_id])
            /\ UNCHANGED <<sql_connection, last_call>>
       ELSE /\ sql_connection' =
                   IF connect_returns(connOk)
                   THEN disconnect_conn(connect_conn(sql_connection, connOk))
                   ELSE sql_connection
            /\ last_call' = [last_call EXCEPT !.audit =
                                Append(@, log_event_write(connOk, engineOk))]
            /\ response' = SuccessResponse(job)
            /\ hist' = [hist EXCEPT ![job.ingestion_id].outcome = "completed"]
            /\ pc' = "idle"
            /\ job' = NoJob
            /\ ld' = NoLoad
    /\ UNCHANGED <<cleanVars, fnVars, concVars,
                   configured, staging_reachable, tables, uploaded_files_db,
                   last_status>>

(* ---------------------------------------------------------------------- *)
(* get_ingestion_status                                                    *)
(* ---------------------------------------------------------------------- *)

RECURSIVE FindInfo(_, _)
FindInfo(db, id) ==
    IF db = <<>> THEN <<>>
    ELSE IF Head(db).ingestion_id = id THEN <<Head(db)>>
         ELSE FindInfo(Tail(db), id)

\* get_ingestion_status(ingestion_id): the first entry with that id, or 404
get_ingestion_status(id) ==
    LET found == FindInfo(uploaded_files_db, id)
    IN  IF found = <<>>
        THEN [NoStatus EXCEPT !.code = 404, !.ingestion_id = id]
        ELSE [code |-> 200, ingestion_id |-> id, status |-> "completed",
              records |-> found[1].records_count,
              method |-> found[1].method]

\* the endpoint is dispatched by the event loop, which upload_covid_data
\* (an async def that never awaits after reading the body) holds until it
\* returns
StatusQuery(id) ==
    /\ pc = "idle"
    /\ last_status' = get_ingestion_status(id)
    /\ UNCHANGED <<cleanVars, fnVars, concVars, last_call,
                   configured, staging_reachable, sql_connection, tables,
                   uploaded_files_db, hist, pc, job, ld, response>>

(* ---------------------------------------------------------------------- *)
(* Specification                                                           *)
(* ---------------------------------------------------------------------- *)

Next ==
    \/ \E f \in Filenames, s \in Sizes, p \in ParseOutcomes : UploadBegin(f, s, p)
    \/ \E k \in BOOLEAN : SetupDatabase(k)
    \/ \E k, e \in BOOLEAN, d \in {"columns", "empty", "error"} :
          CreateTable(k, e, d)
    \/ InsertRaw
    \/ LoadStart
    \/ \E k1, k2, e \in BOOLEAN : ChunkFirst(k1, k2, e)
    \/ ChunkDisconnect
    \/ \E k \in BOOLEAN : ChunkReconnect(k)
    \/ \E k, e \in BOOLEAN : ChunkRetry(k, e)
    \/ LoadReturn
    \/ \E k, e \in BOOLEAN : AuditLog(k, e)
    \/ Register
    \/ \E k, e \in BOOLEAN : LogEventAndRespond(k, e)
    \/ \E id \in 0..MaxUploads : StatusQuery(id)

Spec == Init /\ [][Next]_vars

(* ---------------------------------------------------------------------- *)
(* The pure functions, applied to bounded inputs                           *)
(* ---------------------------------------------------------------------- *)

\* every sequence over alphabet of length at most n
SeqsUpTo(alphabet, n) == UNION {[1..m -> alphabet] : m \in 0..n}

\* characters of the column names: a letter, a capital, a digit, the
\* underscore, a blank, two punctuation marks and a letter outside ASCII
NameAlphabet == {"a", "A", "1", "_", " ", "-", "+", "é"}

\* characters of the sample texts: the four delimiters and a letter
SampleAlphabet == {",", ";", "\t", "|", "a"}

\* files: at most MaxFileRuns runs, each of one byte or of as many bytes
\* as the sample holds
FileRuns == {[b |-> x, n |-> k] : x \in FileBytes, k \in {1, sample_size}}

\* what chardet.detect may report: a codec name or None, and a confidence
DetectorGuesses == {"utf-8", "ascii", "ISO-8859-1", "Windows-1252", ""}
DetectorConfidences == {0, confidence_threshold - 1, confidence_threshold, 100}

\* cells of every type the loader tells apart
Cells ==
    {[NoCell EXCEPT !.kind = "null"]}
    \cup {[NoCell EXCEPT !.kind = "bool", !.b = x] : x \in BOOLEAN}
    \cup {[NoCell EXCEPT !.kind = k, !.n = x] :
             k \in {"int", "float", "datetime"}, x \in {-1, 0, 7}}
    \cup {[NoCell EXCEPT !.kind = "str", !.text = t] :
             t \in SeqsUpTo(CellRuns, MaxCellRuns)}

\* the functions under test
FnOps ==
    {"sanitize", "delimiter", "read_csv", "parse_lines", "infer", "encode",
     "columns"}

\* the inputs of one function
FnInputs(op) ==
    CASE op = "sanitize" ->
           {[FnCall EXCEPT !.op = op, !.arg = x] :
               x \in SeqsUpTo(NameAlphabet, MaxNameLen)}
      [] op = "delimiter" ->
           {[FnCall EXCEPT !.op = op, !.arg = x] :
               x \in SeqsUpTo(SampleAlphabet, MaxSampleLen)}
      [] op = "read_csv" ->
           {[FnCall EXCEPT !.op = op, !.file = f, !.guess = g,
                           !.confidence = c] :
               f \in SeqsUpTo(FileRuns, MaxFileRuns),
               g \in DetectorGuesses, c \in DetectorConfidences}
      [] op = "parse_lines" ->
           {[FnCall EXCEPT !.op = op, !.arg = x] :
               x \in SeqsUpTo(LineKinds, MaxLines)}
      [] op = "infer" ->
           {[FnCall EXCEPT !.op = op, !.samples = x, !.guess = d] :
               x \in SeqsUpTo(SampleCells, MaxSamples), d \in Dtypes}
      [] op = "encode" ->
           {[FnCall EXCEPT !.op = op, !.cell = c] : c \in Cells}
      [] op = "columns" ->
           {[FnCall EXCEPT !.op = op, !.samples = <<x>> \o more] :
               x \in SeqsUpTo(NameAlphabet, MaxNameLen)
                        \cup Range(system_columns),
               more \in SeqsUpTo(Range(system_columns), 1)}

FnInit ==
    /\ configured = FALSE
    /\ staging_reachable = FALSE
    /\ sql_connection = "None"
    /\ tables = <<>>
    /\ uploaded_files_db = <<>>
    /\ hist = <<>>
    /\ pc = "idle"
    /\ job = NoJob
    /\ ld = NoLoad
    /\ response = NoResponse
    /\ last_status = NoStatus
    /\ last_call = NoCall
    /\ \E op \in FnOps : fn \in FnInputs(op)
    /\ conn_id = 0
    /\ closed_ids = {}
    /\ threads = [a \in Activities |-> ThreadOff]
    /\ cleaning_jobs = <<>>
    /\ tasks = <<>>
    /\ cancelled = {}
    /\ status_answer = NoAnswer

\* sanitize_column_name(x), and sanitize_column_name of what it returned
ApplySanitize ==
    /\ fn.op = "sanitize"
    /\ ~fn.done
    /\ fn' = [fn EXCEPT !.done = TRUE,
                        !.out = sanitize_column_name(fn.arg),
                        !.again = sanitize_column_name(
                                      sanitize_column_name(fn.arg))]
    /\ UNCHANGED <<cleanVars, ingestVars, concVars, configured, sql_connection>>

\* detect_csv_delimiter(sample)
ApplyDelimiter ==
    /\ fn.op = "delimiter"
    /\ ~fn.done
    /\ fn' = [fn EXCEPT !.done = TRUE,
                        !.out = <<detect_csv_delimiter(fn.arg)>>]
    /\ UNCHANGED <<cleanVars, ingestVars, concVars, configured, sql_connection>>

\* read_file_universal on a CSV: the encoding is chosen, then
\* pd.read_csv(io.BytesIO(file_content), encoding=encoding, ...) decodes
\* the whole file and raises when a byte does not decode
ApplyReadCsv ==
    /\ fn.op = "read_csv"
    /\ ~fn.done
    /\ LET encoding ==
               detect_encoding_smart(fn.file, fn.guess, fn.confidence)
       IN  fn' = [fn EXCEPT !.done = TRUE,
                            !.out = <<encoding>>,
                            !.raised = ~Decodes(fn.file, encoding)]
    /\ UNCHANGED <<cleanVars, ingestVars, concVars, configured, sql_connection>>

\* read_file_universal on the lines of a CSV: the rows of the frame in
\* out, metadata["issues"] in again
ApplyParseLines ==
    /\ fn.op = "parse_lines"
    /\ ~fn.done
    /\ fn' = [fn EXCEPT !.done = TRUE,
                        !.out = KeptLines(fn.arg),
                        !.again = Issues(KeptLines(fn.arg))]
    /\ UNCHANGED <<cleanVars, ingestVars, concVars, configured, sql_connection>>

\* create_dynamic_table_from_df on one column: the dtype in guess, the
\* cells in samples, the inferred SQL type in out
ApplyInfer ==
    /\ fn.op = "infer"
    /\ ~fn.done
    /\ fn' = [fn EXCEPT !.done = TRUE,
                        !.out = <<infer_sql_type(fn.guess,
                                                 HeadSample(fn.samples))>>]
    /\ UNCHANGED <<cleanVars, ingestVars, concVars, configured, sql_connection>>

\* the loader building the literal of one cell
ApplyEncode ==
    /\ fn.op = "encode"
    /\ ~fn.done
    /\ fn' = [fn EXCEPT !.done = TRUE, !.lit = encode_cell(fn.cell)]
    /\ UNCHANGED <<cleanVars, ingestVars, concVars, configured, sql_connection>>

\* create_dynamic_table_from_df and insert_dataframe_ultra_fast on the
\* same frame, whose column names are in samples: the column list of the
\* CREATE and the column list of the INSERT
ApplyColumns ==
    /\ fn.op = "columns"
    /\ ~fn.done
    /\ LET df == [cols |-> fn.samples, nrows |-> 1]
       IN  fn' = [fn EXCEPT !.done = TRUE,
                           !.create_cols = CreateColumns(df),
                           !.insert_cols = InsertColumns(df)]
    /\ UNCHANGED <<cleanVars, ingestVars, concVars, configured, sql_connection>>

FnNext ==
    \/ ApplySanitize
    \/ ApplyDelimiter
    \/ ApplyReadCsv
    \/ ApplyParseLines
    \/ ApplyInfer
    \/ ApplyEncode
    \/ ApplyColumns

FnSpec == FnInit /\ [][FnNext]_vars


(* ---------------------------------------------------------------------- *)
(* Cleaning jobs: run, background task, status, cancel                     *)
(* ---------------------------------------------------------------------- *)

\* run_cleaning_job, get_cleaning_status and cancel_job are coroutines of
\* the event loop; simulate_cleaning_process is a plain function given to
\* BackgroundTasks, so it runs on a worker thread after the answer of
\* run_cleaning_job and its calls fall between any two requests. Each call
\* on cleaning_jobs is a couple of dictionary stores.

\* the progress values simulate_cleaning_process reports, in order
ProgressStages == <<10, 30, 80, 90>>

\* the stage after which clean_covid_data runs
CleanAfterStage == 2

\* run_cleaning_job: create_job_id, start_cleaning_job, add_task
RunCleaningJob ==
    /\ Len(cleaning_jobs) < MaxJobs
    /\ cleaning_jobs' =
          Append(cleaning_jobs, [status |-> "pending", progress |-> 0])
    /\ tasks' = Append(tasks, [pc |-> "update", at |-> 1])
    /\ UNCHANGED <<ingestVars, fnVars, concVars, configured, sql_connection,
                   cancelled, status_answer>>

\* update_job_progress(job_id, progress, status)
update_job_progress(jobs, job_id, progress, status) ==
    IF job_id \in DOMAIN jobs
    THEN [jobs EXCEPT ![job_id] = [status |-> status, progress |-> progress]]
    ELSE jobs

\* complete_job(job_id, results)
complete_job(jobs, job_id) ==
    IF job_id \in DOMAIN jobs
    THEN [jobs EXCEPT ![job_id] = [status |-> "completed", progress |-> 100]]
    ELSE jobs

\* simulate_cleaning_process: cleaning_service.update_job_progress(job_id,
\* 10 / 30 / 80 / 90, "running")
TaskUpdate(job_id) ==
    /\ job_id \in DOMAIN cleaning_jobs
    /\ tasks[job_id].pc = "update"
    /\ LET at == tasks[job_id].at
       IN  /\ cleaning_jobs' =
                 update_job_progress(cleaning_jobs, job_id,
                                     ProgressStages[at], "running")
           /\ tasks' = [tasks EXCEPT ![job_id] =
                 IF at = CleanAfterStage THEN [@ EXCEPT !.pc = "clean"]
                 ELSE IF at = Len(ProgressStages)
                 THEN [@ EXCEPT !.pc = "complete"]
                 ELSE [@ EXCEPT !.at = at + 1]]
    /\ UNCHANGED <<ingestVars, fnVars, concVars, configured, sql_connection,
                   cancelled, status_answer>>

\* simulate_cleaning_process: clean_covid_data returns, or raises and the
\* except clause stores "failed"
TaskClean(job_id, ok) ==
    /\ job_id \in DOMAIN cleaning_jobs
    /\ tasks[job_id].pc = "clean"
    /\ IF ok
       THEN /\ tasks' = [tasks EXCEPT ![job_id] =
                            [pc |-> "update", at |-> CleanAfterStage + 1]]
            /\ UNCHANGED cleaning_jobs
       ELSE /\ tasks' = [tasks EXCEPT ![job_id].pc = "done"]
            /\ cleaning_jobs' =
                  [cleaning_jobs EXCEPT ![job_id].status = "failed"]
    /\ UNCHANGED <<ingestVars, fnVars, concVars, configured, sql_connection,
                   cancelled, status_answer>>

\* simulate_cleaning_process: cleaning_service.complete_job(job_id, results)
TaskComplete(job_id) ==
    /\ job_id \in DOMAIN cleaning_jobs
    /\ tasks[job_id].pc = "complete"
    /\ cleaning_jobs' = complete_job(cleaning_jobs, job_id)
    /\ tasks' = [tasks EXCEPT ![job_id].pc = "done"]
    /\ UNCHANGED <<ingestVars, fnVars, concVars, configured, sql_connection,
                   cancelled, status_answer>>

\* cancel_job: 404 for an unknown job, 400 for a job that is not running,
\* else the status becomes "cancelled"
cancel_job(job_id) ==
    /\ job_id \in 1..MaxJobs
    /\ IF job_id \in DOMAIN cleaning_jobs /\ cleaning_jobs[job_id].status = "running"
       THEN /\ cleaning_jobs' =
                  [cleaning_jobs EXCEPT ![job_id].status = "cancelled"]
            /\ cancelled' = cancelled \cup {job_id}
       ELSE UNCHANGED <<cleaning_jobs, cancelled>>
    /\ UNCHANGED <<ingestVars, fnVars, concVars, configured, sql_connection,
                   tasks, status_answer>>

\* status_map.get(job_status["status"], ProcessStatus.PENDING)
status_map(status) ==
    IF status \in {"pending", "running", "completed", "failed"}
    THEN status ELSE "pending"

\* get_cleaning_status: 404 for an unknown job, else the mapped status
get_cleaning_status(job_id) ==
    /\ job_id \in 1..MaxJobs
    /\ status_answer' =
          IF job_id \notin DOMAIN cleaning_jobs
          THEN [job_id |-> job_id, code |-> 404, status |-> "None",
                cancelled |-> FALSE]
          ELSE [job_id |-> job_id, code |-> 200,
                status |-> status_map(cleaning_jobs[job_id].status),
                cancelled |-> job_id \in cancelled]
    /\ UNCHANGED <<ingestVars, fnVars, concVars, configured, sql_connection,
                   cleaning_jobs, tasks, cancelled>>

CleanInit ==
    /\ configured = FALSE
    /\ staging_reachable = FALSE
    /\ sql_connection = "None"
    /\ tables = <<>>
    /\ uploaded_files_db = <<>>
    /\ hist = <<>>
    /\ pc = "idle"
    /\ job = NoJob
    /\ ld = NoLoad
    /\ response = NoResponse
    /\ last_status = NoStatus
    /\ last_call = NoCall
    /\ fn = NoFn
    /\ conn_id = 0
    /\ closed_ids = {}
    /\ threads = [a \in Activities |-> ThreadOff]
    /\ cleaning_jobs = <<>>
    /\ tasks = <<>>
    /\ cancelled = {}
    /\ status_answer = NoAnswer

CleanNext ==
    \/ RunCleaningJob
    \/ \E j \in 1..MaxJobs : TaskUpdate(j)
    \/ \E j \in 1..MaxJobs, ok \in BOOLEAN : TaskClean(j, ok)
    \/ \E j \in 1..MaxJobs : TaskComplete(j)
    \/ \E j \in 1..MaxJobs : cancel_job(j)
    \/ \E j \in 1..MaxJobs : get_cleaning_status(j)

CleanSpec == CleanInit /\ [][CleanNext]_vars


(* ---------------------------------------------------------------------- *)
(* insert_dataframe_ultra_fast called on its own                           *)
(* ---------------------------------------------------------------------- *)

\* insert_dataframe_ultra_fast is also called by the cleaning endpoint and
\* through the insert_dataframe alias, whatever the connection: never
\* opened, open, or closed by an earlier disconnect(). The table exists
\* with the columns create_dynamic_table_from_df gives it.
LoaderInit ==
    /\ configured \in BOOLEAN
    /\ staging_reachable = FALSE
    /\ sql_connection \in {"None", "open", "closed"}
    /\ configured \/ sql_connection = "None"
    /\ \E df \in Frames :
          LET name == sanitize_table_name(File_a_csv)
          IN  /\ tables = (name :> CreateColumns(df))
              /\ hist = <<[NewHist(df) EXCEPT !.table_name = name,
                                              !.ddl = "ok",
                                              !.created = TRUE]>>
              /\ job = [NoJob EXCEPT !.ingestion_id = 1,
                                     !.filename = File_a_csv,
                                     !.df = df,
                                     !.table_name = name]
    /\ uploaded_files_db = <<>>
    /\ pc = "load"
    /\ ld = NoLoad
    /\ response = NoResponse
    /\ last_status = NoStatus
    /\ last_call = NoCall
    /\ fn = NoFn
    /\ conn_id = 0
    /\ closed_ids = {}
    /\ threads = [a \in Activities |-> ThreadOff]
    /\ cleaning_jobs = <<>>
    /\ tasks = <<>>
    /\ cancelled = {}
    /\ status_answer = NoAnswer

LoaderNext ==
    \/ LoadStart
    \/ \E k1, k2, e \in BOOLEAN : ChunkFirst(k1, k2, e)
    \/ ChunkDisconnect
    \/ \E k \in BOOLEAN : ChunkReconnect(k)
    \/ \E k, e \in BOOLEAN : ChunkRetry(k, e)
    \/ LoadReturn

LoaderSpec == LoaderInit /\ [][LoaderNext]_vars


(* ---------------------------------------------------------------------- *)
(* Activities sharing the DatabricksService singleton                      *)
(* ---------------------------------------------------------------------- *)

\* upload_covid_data runs on the event loop and its load loop never
\* awaits; simulate_cleaning_process is a plain function given to
\* BackgroundTasks, so it runs on a worker thread and its log_event calls
\* overlap with the load loop. Both use the one databricks_service object;
\* no lock is taken anywhere.
ConcInit ==
    /\ configured = TRUE
    /\ staging_reachable = FALSE
    /\ sql_connection \in {"None", "open"}
    /\ tables = <<>>
    /\ uploaded_files_db = <<>>
    /\ hist = <<>>
    /\ pc = "idle"
    /\ job = NoJob
    /\ ld = NoLoad
    /\ response = NoResponse
    /\ last_status = NoStatus
    /\ last_call = NoCall
    /\ fn = NoFn
    /\ conn_id = IF sql_connection = "None" THEN 0 ELSE 1
    /\ closed_ids = {}
    /\ threads =
          [a \in Activities |->
              IF a = "loader"
              THEN [ThreadOff EXCEPT !.pc = "ensure", !.todo = MaxLoaderChunks]
              ELSE [ThreadOff EXCEPT !.todo = MaxEvents]]
    /\ cleaning_jobs = <<>>
    /\ tasks = <<>>
    /\ cancelled = {}
    /\ status_answer = NoAnswer

\* connect(): a new connection object replaces the one held, the old one
\* is not closed
DoConnect(ok) ==
    IF connect_returns(ok)
    THEN /\ conn_id' = conn_id + 1
         /\ sql_connection' = connect_conn(sql_connection, ok)
         /\ UNCHANGED closed_ids
    ELSE UNCHANGED <<conn_id, sql_connection, closed_ids>>

\* ensure_connected(): connect() only when no object is held
DoEnsureConnected(ok) ==
    IF sql_connection = "None" THEN DoConnect(ok)
    ELSE UNCHANGED <<conn_id, sql_connection, closed_ids>>

\* disconnect(): close() on the object held, which stays in the attribute
DoDisconnect ==
    /\ sql_connection' = disconnect_conn(sql_connection)
    /\ closed_ids' = IF conn_id = 0 THEN closed_ids
                     ELSE closed_ids \cup {conn_id}
    /\ UNCHANGED conn_id

\* the loop of _insert_bulk_optimized goes to the next offset
NextChunk(t) ==
    [t EXCEPT !.todo = @ - 1, !.retry = FALSE, !.cursor = 0,
              !.pc = IF t.todo = 1 THEN "off" ELSE "ensure"]

\* where an activity goes when its execute_query has ended: the loader to
\* the next chunk, or to its except clause after the first failure;
\* log_event to disconnect(), on both branches
AfterExec(a, t, outcome) ==
    IF a = "loader"
    THEN IF outcome = "raised" /\ ~t.retry
         THEN [t EXCEPT !.pc = "disconnect", !.retry = TRUE, !.cursor = 0]
         ELSE NextChunk(t)
    ELSE [t EXCEPT !.pc = "disconnect", !.cursor = 0]

\* simulate_cleaning_process calls monitoring_service.log_event
LogEventStart ==
    /\ threads["log_event"].pc = "off"
    /\ threads["log_event"].todo > 0
    /\ threads' = [threads EXCEPT !["log_event"].pc = "connect"]
    /\ UNCHANGED <<cleanVars, ingestVars, fnVars, configured, sql_connection,
                   conn_id, closed_ids>>

\* _insert_bulk_optimized: self.ensure_connected() before each chunk
LoaderEnsure(connOk) ==
    /\ threads["loader"].pc = "ensure"
    /\ DoEnsureConnected(connOk)
    /\ threads' = [threads EXCEPT !["loader"].pc = "exec"]
    /\ UNCHANGED <<cleanVars, ingestVars, fnVars, configured>>

\* connect() called by log_event, or by the except clause of the loader
ThreadConnect(a, connOk) ==
    /\ threads[a].pc = "connect"
    /\ conn_id < MaxConnects
    /\ DoConnect(connOk)
    /\ threads' =
          [threads EXCEPT ![a] =
              IF a = "loader" \/ connect_returns(connOk)
              THEN [@ EXCEPT !.pc = "exec"]
              ELSE [@ EXCEPT !.pc = "off", !.todo = @ - 1]]
    /\ UNCHANGED <<cleanVars, ingestVars, fnVars, configured>>

\* execute_query: "if not self.ensure_connected(): return []"
ExecEnsure(a, connOk) ==
    /\ threads[a].pc = "exec"
    /\ DoEnsureConnected(connOk)
    /\ threads' =
          [threads EXCEPT ![a] =
              IF ensure_connected_returns(sql_connection, connOk)
              THEN [@ EXCEPT !.pc = "cursor"]
              ELSE AfterExec(a, @, "skipped")]
    /\ UNCHANGED <<cleanVars, ingestVars, fnVars, configured>>

\* execute_query: cursor = self.sql_connection.cursor(), on whatever object
\* the attribute holds at that moment; a closed connection raises
ExecCursor(a) ==
    /\ threads[a].pc = "cursor"
    /\ threads' =
          [threads EXCEPT ![a] =
              IF conn_id \in closed_ids
              THEN AfterExec(a, @, "raised")
              ELSE [@ EXCEPT !.pc = "running", !.cursor = conn_id]]
    /\ UNCHANGED <<cleanVars, ingestVars, fnVars, configured, sql_connection,
                   conn_id, closed_ids>>

\* execute_query: cursor.execute(query) returns or raises; what a
\* statement does whose connection was closed under it is not determined
ExecFinish(a, engineOk) ==
    /\ threads[a].pc = "running"
    /\ threads' =
          [threads EXCEPT ![a] =
              AfterExec(a, @, IF engineOk THEN "ok" ELSE "raised")]
    /\ UNCHANGED <<cleanVars, ingestVars, fnVars, configured, sql_connection,
                   conn_id, closed_ids>>

\* disconnect() called by log_event after its write, or by the except
\* clause of the loader
ThreadDisconnect(a) ==
    /\ threads[a].pc = "disconnect"
    /\ DoDisconnect
    /\ threads' =
          [threads EXCEPT ![a] =
              IF a = "loader" THEN [@ EXCEPT !.pc = "connect"]
              ELSE [@ EXCEPT !.pc = "off", !.todo = @ - 1]]
    /\ UNCHANGED <<cleanVars, ingestVars, fnVars, configured>>

ConcNext ==
    \/ LogEventStart
    \/ \E k \in BOOLEAN : LoaderEnsure(k)
    \/ \E a \in Activities, k \in BOOLEAN : ThreadConnect(a, k)
    \/ \E a \in Activities, k \in BOOLEAN : ExecEnsure(a, k)
    \/ \E a \in Activities : ExecCursor(a)
    \/ \E a \in Activities, e \in BOOLEAN : ExecFinish(a, e)
    \/ \E a \in Activities : ThreadDisconnect(a)

ConcSpec == ConcInit /\ [][ConcNext]_vars

(* ---------------------------------------------------------------------- *)
(* DatabricksService: the connection methods called one after another      *)
(* ---------------------------------------------------------------------- *)

ConnInit ==
    /\ configured \in BOOLEAN
    /\ staging_reachable = FALSE
    /\ sql_connection = "None"
    /\ tables = <<>>
    /\ uploaded_files_db = <<>>
    /\ hist = <<>>
    /\ pc = "idle"
    /\ job = NoJob
    /\ ld = NoLoad
    /\ response = NoResponse
    /\ last_status = NoStatus
    /\ last_call = NoCall
    /\ fn = FnCall
    /\ conn_id = 0
    /\ closed_ids = {}
    /\ threads = [a \in Activities |-> ThreadOff]
    /\ cleaning_jobs = <<>>
    /\ tasks = <<>>
    /\ cancelled = {}
    /\ status_answer = NoAnswer

\* the calls made so far in arg, and what the last one returned in out
Returned(op, value) ==
    [FnCall EXCEPT !.op = op, !.done = TRUE, !.arg = Append(fn.arg, op),
                 !.out = <<value>>]

\* connect()
CallConnect(ok) ==
    /\ Len(fn.arg) < MaxCalls
    /\ DoConnect(ok)
    /\ fn' = Returned("connect",
                      IF connect_returns(ok) THEN "True" ELSE "False")
    /\ UNCHANGED <<cleanVars, ingestVars, threads, configured>>

\* disconnect()
CallDisconnect ==
    /\ Len(fn.arg) < MaxCalls
    /\ DoDisconnect
    /\ fn' = Returned("disconnect", "None")
    /\ UNCHANGED <<cleanVars, ingestVars, threads, configured>>

\* ensure_connected()
CallEnsureConnected(ok) ==
    /\ Len(fn.arg) < MaxCalls
    /\ DoEnsureConnected(ok)
    /\ fn' = Returned("ensure_connected",
                      IF ensure_connected_returns(sql_connection, ok)
                      THEN "True" ELSE "False")
    /\ UNCHANGED <<cleanVars, ingestVars, threads, configured>>

\* execute_query(query): [] when ensure_connected() is False; else the
\* cursor is asked of the object held, which raises when that object was
\* closed; else the engine runs the statement or refuses it
CallExecuteQuery(ok, engineOk) ==
    /\ Len(fn.arg) < MaxCalls
    /\ DoEnsureConnected(ok)
    /\ fn' = Returned("execute_query",
                 IF ~ensure_connected_returns(sql_connection, ok)
                 THEN "skipped"
                 ELSE IF conn_id \in closed_ids THEN "raised_closed"
                 ELSE IF engineOk THEN "ok" ELSE "raised")
    /\ UNCHANGED <<cleanVars, ingestVars, threads, configured>>

ConnNext ==
    \/ \E k \in BOOLEAN : CallConnect(k)
    \/ CallDisconnect
    \/ \E k \in BOOLEAN : CallEnsureConnected(k)
    \/ \E k, e \in BOOLEAN : CallExecuteQuery(k, e)

ConnSpec == ConnInit /\ [][ConnNext]_vars



(* ---------------------------------------------------------------------- *)
(* Claims about the batched loader                                         *)
(* ---------------------------------------------------------------------- *)

\* entries of ld.log that are calls of execute_query with the INSERT
ExecEvents == {"ok", "raised", "skipped"}

ExecPositions(log) == {k \in 1..Len(log) : log[k] \in ExecEvents}

\* C1: the INSERT of a chunk is executed at most twice; a second execution
\* comes only after the first one raised and after disconnect() and then
\* connect() were called, and the engine runs it only on a connection that
\* connect() re-established.
C1_RetryOnceAfterReconnect ==
    /\ Cardinality(ExecPositions(ld.log)) <= 2
    /\ \A k \in ExecPositions(ld.log) :
          k > 1 => /\ k = 4
                   /\ ld.log[1] = "raised"
                   /\ ld.log[2] = "disconnect"
                   /\ ld.log[3] \in {"connect_ok", "connect_failed"}
                   /\ (ld.log[4] = "ok" => ld.log[3] = "connect_ok")

\* a chunk whose first INSERT raised and whose retry was run by the engine
C1_Witness ==
    /\ Len(ld.log) = 4
    /\ ld.log[1] = "raised"
    /\ ld.log[4] = "ok"

\* the offsets range(0, nrows, chunk_size) yields, in order
Offsets(nrows) == [k \in 1..NumChunks(nrows) |-> (k - 1) * chunk_size]

IsPrefix(s, t) == Len(s) <= Len(t) /\ s = SubSeq(t, 1, Len(s))

LoaderPcs == {"chunk", "disconnect", "reconnect", "retry"}

\* steps the loader still has to take at most: four per chunk not settled
LoaderMeasure ==
    IF pc \notin LoaderPcs THEN 0
    ELSE 4 * (NumChunks(job.df.nrows) - (ld.i \div chunk_size))
         - (CASE pc = "chunk" -> 0
              [] pc = "disconnect" -> 1
              [] pc = "reconnect" -> 2
              [] pc = "retry" -> 3)

\* C2: a chunk whose INSERT fails on both attempts does not end the load:
\* the handler gets no exception from it, the loop goes on with the next
\* offset, the offsets are attempted in order, every offset has been
\* attempted when the loader returns, and every step of the loader brings
\* the return nearer.
C2_ContinueAfterDoubleFailure ==
    /\ [](/\ IsPrefix(ld.attempted, Offsets(job.df.nrows))
          /\ (pc = "return" => ld.attempted = Offsets(job.df.nrows))
          /\ (pc \in {"audit", "register", "log"} /\ configured
                => job.result.present))
    /\ [][/\ (pc = "retry" =>
                 /\ pc' \in {"chunk", "return"}
                 /\ response' = response
                 /\ ld'.i = NextOffset(ld.i)
                 /\ (pc' = "return" <=> ld'.i >= job.df.nrows))
          /\ (pc \in LoaderPcs => LoaderMeasure' < LoaderMeasure)]_vars

\* the loader returns after a chunk failed twice and a later chunk loaded
C2_Witness ==
    /\ pc = "return"
    /\ hist[job.ingestion_id].failed_chunks >= 1
    /\ ld.log = <<"ok">>
    /\ ld.success_count > 0


(* ---------------------------------------------------------------------- *)
(* Claims about what a finished job reports                                *)
(* ---------------------------------------------------------------------- *)

Ids == 1..Len(hist)

Completed(id) == hist[id].outcome = "completed"

Finished(id) == hist[id].outcome \in {"completed", "failed"}

LoadReached(id) == Len(hist[id].load_trace) > 1

\* every INSERT of the job was run by the engine without error
NoInsertRaised(id) == ~hist[id].transient /\ hist[id].failed_chunks = 0

\* the warning / error text of a registry entry, "" when it has none
WarningOf(info) ==
    IF "warning" \in DOMAIN info THEN info.warning
    ELSE IF "error" \in DOMAIN info THEN info.error
    ELSE ""

\* C3: a finished load of 10 chunks of which exactly one failed on both
\* attempts reports rows_loaded = total_rows - chunk_size, the status
\* Completed, and a non-empty warning.
C3_PartialFailureReported ==
    \A id \in Ids :
        (/\ Completed(id)
         /\ NumChunks(hist[id].df.nrows) = 10
         /\ hist[id].failed_chunks = 1)
        => /\ get_ingestion_status(id).code = 200
           /\ get_ingestion_status(id).status = "completed"
           /\ get_ingestion_status(id).records = hist[id].df.nrows - chunk_size
           /\ WarningOf(FindInfo(uploaded_files_db, id)[1]) # ""

\* C4: for every job id handed to a submitter the status query reports the
\* number of rows that landed in the destination table.
C4_StatusReportsLandedRows ==
    \A id \in Ids :
        Completed(id)
        => /\ get_ingestion_status(id).code = 200
           /\ get_ingestion_status(id).records = hist[id].landed

\* C5: once the load stage is reached, the job ends Failed if and only if
\* no chunk succeeded.
C5_FailedIffNoChunkSucceeded ==
    \A id \in Ids :
        (LoadReached(id) /\ Finished(id))
        => (hist[id].outcome = "failed" <=> hist[id].landed = 0)

\* C6: a load goes NotStarted -> FastPathAttempt -> (Succeeded |
\* FallbackAttempt) -> (Succeeded | Failed): a batched INSERT is issued only
\* after the fast path of the same load was attempted.
C6_FastPathFirst ==
    \A id \in Ids :
        hist[id].issued
        => /\ Len(hist[id].load_trace) >= 3
           /\ hist[id].load_trace[2] = "FastPathAttempt"
           /\ hist[id].load_trace[3] = "FallbackAttempt"

ExpectedColumns(df) ==
    {sanitize_column_name(c) : c \in Range(df.cols)}
    \cup {ingestion_id_col, processed_at_col}

\* C8: when the engine rejects the CREATE, or the DESCRIBE that follows an
\* accepted CREATE returns no column, the job fails and no INSERT into the
\* destination table is issued for it: nothing is loaded, nothing lands,
\* no registry entry is made.
C8_ProvisioningFailureIsFatal ==
    \A id \in Ids :
        hist[id].ddl \in {"create_rejected", "describe_empty"}
        => /\ hist[id].outcome = "failed"
           /\ ~hist[id].issued
           /\ hist[id].landed = 0
           /\ hist[id].load_trace = <<"NotStarted">>
           /\ get_ingestion_status(id).code = 404
           /\ job.ingestion_id # id

\* a CREATE that made the table, followed by a DESCRIBE with no column
C8_Witness ==
    \E id \in Ids :
        /\ hist[id].ddl = "describe_empty"
        /\ hist[id].created
        /\ hist[id].table_name \in DOMAIN tables

C10_ExistingTableStillLoaded ==
    \A id \in Ids :
        (/\ Finished(id)
         /\ hist[id].existed
         /\ ~HasDuplicates(SanitizeAll(hist[id].df.cols))
         /\ hist[id].ddl = "ok"
         /\ hist[id].table_name \in DOMAIN tables
         /\ Range(tables[hist[id].table_name]) # ExpectedColumns(hist[id].df)
         /\ ~hist[id].transient)
        => /\ Completed(id)
           /\ hist[id].landed = hist[id].df.nrows

(* ---------------------------------------------------------------------- *)
(* Claims about the validation of a submission                             *)
(* ---------------------------------------------------------------------- *)

\* a submission that is to be turned away: its extension is none of the
\* four, or its body is empty, or its body is over the ceiling
Unacceptable(filename, size) ==
    \/ MapLower(splitext_ext(filename)) \notin allowed_extensions
    \/ size = 0
    \/ size > max_size

\* C11: a submission whose extension is not allowed, whose size is zero or
\* whose size exceeds the ceiling is answered with an error without the
\* decoder being called, and the call writes nothing: no table, no row,
\* no registry entry, and the storage connection is left as it was.
C11_RejectedBeforeDecode ==
    /\ []((last_call.called
           /\ Unacceptable(last_call.filename, last_call.size))
          => /\ ~last_call.decoded
             /\ pc = "idle"
             /\ response.code = 400
             /\ response.status = "error"
             /\ hist[last_call.ingestion_id].outcome = "rejected"
             /\ hist[last_call.ingestion_id].ddl = "none"
             /\ ~hist[last_call.ingestion_id].issued
             /\ hist[last_call.ingestion_id].landed = 0
             /\ last_call.audit = <<>>
             /\ get_ingestion_status(last_call.ingestion_id).code = 404)
    /\ [][(last_call'.called
           /\ Unacceptable(last_call'.filename, last_call'.size))
          => /\ tables' = tables
             /\ uploaded_files_db' = uploaded_files_db
             /\ sql_connection' = sql_connection]_vars

\* an empty body with an allowed extension, turned away after an earlier
\* upload made a table and a registry entry
C11_Witness ==
    /\ last_call.called
    /\ last_call.filename = File_a_csv
    /\ last_call.size = 0
    /\ ~last_call.decoded
    /\ response.code = 400
    /\ tables # <<>>
    /\ Len(uploaded_files_db) = 1

\* C12: no ingestion id is generated for a submission that is turned away
\* for its extension or its size.
C12_NoIdForRejected ==
    (last_call.called /\ Unacceptable(last_call.filename, last_call.size))
    => last_call.ingestion_id = 0

(* ---------------------------------------------------------------------- *)
(* Claims about the order of the stages and the registry                   *)
(* ---------------------------------------------------------------------- *)

\* the registry holds an entry for this id
Registered(id) == FindInfo(uploaded_files_db, id) # <<>>

\* C13: the stages run in the order Sniff, Infer, Provision, Load, Audit
\* and none begins unless the one before it returned success: with the
\* storage backend configured, the audit write of a job and its registry
\* entry come only after a load of that job that was reached, returned and
\* landed rows.
C13_StagesGateOnSuccess ==
    configured
    => /\ \A id \in Ids :
             Registered(id)
             => /\ hist[id].ddl = "ok"
                /\ hist[id].load_trace[Len(hist[id].load_trace)] = "Succeeded"
                /\ hist[id].landed > 0
       /\ (last_call.audit # <<>>
           => /\ hist[last_call.ingestion_id].ddl = "ok"
              /\ hist[last_call.ingestion_id].landed > 0)

\* C14: the status query answers with the job record for every id an
\* upload returned to its submitter and with 404 for every other id.
C14_StatusKnowsExactlyReturnedIds ==
    pc = "idle"
    => \A id \in 0..MaxUploads :
          get_ingestion_status(id).code
              = IF id \in Ids /\ Completed(id) THEN 200 ELSE 404

(* ---------------------------------------------------------------------- *)
(* Claims about the audit trail                                            *)
(* ---------------------------------------------------------------------- *)

\* outcomes of an audit write that left nothing in audit_logs
AuditFailures == {"raised", "skipped", "connect_failed"}

\* C16: an audit failure never fails the job: once insert_audit_log has
\* been called for an upload, whatever became of that write and of the
\* write inside log_event, the handler goes on to the registry entry and
\* to the response, and the response is the success result with the id of
\* the job and the number of rows of its frame.
C16_AuditFailureNotFatal ==
    last_call.audit # <<>>
    => LET id == last_call.ingestion_id
       IN  /\ pc \in {"register", "log", "idle"}
           /\ pc \in {"register", "log"}
                 => /\ job.ingestion_id = id
                    /\ hist[id].outcome = "running"
           /\ pc = "idle"
                 => /\ Len(last_call.audit) = 2
                    /\ Completed(id)
                    /\ Registered(id)
                    /\ response = [code |-> 200, ingestion_id |-> id,
                                   records_count |-> hist[id].df.nrows,
                                   status |-> "success"]
                    /\ get_ingestion_status(id).records = hist[id].df.nrows

\* an upload answered with success after insert_audit_log was rejected
\* and the write of log_event failed too
C16_Witness ==
    /\ pc = "idle"
    /\ Len(last_call.audit) = 2
    /\ last_call.audit[1] \in AuditFailures
    /\ last_call.audit[2] \in AuditFailures
    /\ response.status = "success"
    /\ hist[last_call.ingestion_id].landed = chunk_size + 1

(* ---------------------------------------------------------------------- *)
(* Claims about the sanitizer and the delimiter sniffer                    *)
(* ---------------------------------------------------------------------- *)

\* C17: sanitize_column_name(sanitize_column_name(x)) is
\* sanitize_column_name(x) for every string x.
C17_SanitizeIdempotent ==
    (fn.op = "sanitize" /\ fn.done) => fn.again = fn.out

\* a name the sanitizer changed in every one of its steps: capital,
\* blank, punctuation, underscore at the end and digit at the front
C17_Witness ==
    /\ fn.op = "sanitize"
    /\ fn.done
    /\ fn.arg = <<"_", "1", "-">>
    /\ fn.out = <<"c", "o", "l", "_", "1">>
    /\ fn.again = fn.out

\* the characters of a storage identifier
IdentifierChars == LowerLetters \cup Digits \cup {"_"}

\* C18: for every input string the sanitizer returns a valid storage
\* identifier: non-empty, only characters of [a-z0-9_], not starting with
\* a digit.
C18_SanitizeGivesIdentifier ==
    (fn.op = "sanitize" /\ fn.done)
    => /\ fn.out # <<>>
       /\ Range(fn.out) \subseteq IdentifierChars
       /\ fn.out[1] \notin Digits

\* the rank of a delimiter: comma, semicolon, tab, pipe
Priority(c) ==
    CASE c = "," -> 1 [] c = ";" -> 2 [] c = "\t" -> 3 [] c = "|" -> 4

\* C20: for every sample text the sniffer returns the delimiter among
\* comma, semicolon, tab and pipe that occurs most often in it and, when
\* several occur equally often (none at all included), the first of them
\* in that order.
C20_DelimiterIsFirstMostFrequent ==
    (fn.op = "delimiter" /\ fn.done)
    => LET d == fn.out[1]
           candidates == {",", ";", "\t", "|"}
       IN  /\ Len(fn.out) = 1
           /\ d \in candidates
           /\ \A e \in candidates :
                 /\ Count(fn.arg, e) <= Count(fn.arg, d)
                 /\ Priority(e) < Priority(d)
                       => Count(fn.arg, e) < Count(fn.arg, d)

\* a sample in which semicolon and pipe both occur twice and nothing else
\* does: the semicolon is returned
C20_Witness ==
    /\ fn.op = "delimiter"
    /\ fn.done
    /\ Count(fn.arg, ";") = 2
    /\ Count(fn.arg, "|") = 2
    /\ fn.out = <<";">>

(* ---------------------------------------------------------------------- *)
(* Claims about colliding column names                                     *)
(* ---------------------------------------------------------------------- *)

\* C19: within one provisioned table the stored column names are pairwise
\* distinct even when two source columns sanitize to the same identifier:
\* the column list of the CREATE statement, the column list of the INSERT
\* statements and the columns of every table name no column twice, and a
\* job that ends Completed on a table it created has one stored column
\* for each of its source columns.
C19_StoredColumnsDistinct ==
    /\ \A t \in DOMAIN tables : ~HasDuplicates(tables[t])
    /\ pc = "create" => ~HasDuplicates(CreateColumns(job.df))
    /\ ~HasDuplicates(ld.column_names)
    /\ \A id \in Ids :
          (Completed(id) /\ hist[id].created)
          => Len(tables[hist[id].table_name]) = Len(hist[id].df.cols) + 2

(* ---------------------------------------------------------------------- *)
(* Claims about the shared connection                                      *)
(* ---------------------------------------------------------------------- *)

\* C15: statement execution on the storage connection is serialized: while
\* an activity is executing a statement, the connection it executes on
\* is still the one the service holds and has not been closed.
C15_NoInterference ==
    \A a \in Activities :
        threads[a].pc = "running"
        => /\ threads[a].cursor = conn_id
           /\ threads[a].cursor \notin closed_ids

(* ---------------------------------------------------------------------- *)
(* Claims about the decoder                                                *)
(* ---------------------------------------------------------------------- *)

\* C21: for every CSV file that is text in utf-8, latin-1 or cp1252,
\* decoding the whole file with the encoding detect_encoding_smart chose
\* never fails (stated for the reports of a detector whose guess, when it
\* makes one, decodes the sample it was given).
C21_DecodingNeverFails ==
    (/\ fn.op = "read_csv"
     /\ fn.done
     /\ \E enc \in {"utf-8", "latin-1", "cp1252"} : Decodes(fn.file, enc)
     /\ fn.guess # ""
           => Decodes(TakeBytes(fn.file, sample_size), fn.guess))
    => ~fn.raised

\* C22: decoding a CSV with malformed lines does not abort, each line that
\* does not parse is skipped, and the issues value returned to the caller
\* has grown by one for every skipped line: it holds at least as many
\* entries as lines were skipped.
C22_IssuesCountSkippedLines ==
    (fn.op = "parse_lines" /\ fn.done)
    => /\ ~fn.raised
       /\ Len(fn.out) = Len(fn.arg) - Count(fn.arg, "long")
       /\ Len(fn.again) >= Count(fn.arg, "long")


\* a cell the two date patterns accept, as re.match accepts it
LooksLikeDate(v) == ReMatch(iso_pattern, v) \/ ReMatch(us_pattern, v)

\* C23: a text column is inferred as DATE only if every sampled non-null
\* cell matches one of the two date patterns; when a sampled cell does not
\* match, the column is STRING; the inference never fails.
C23_DateOnlyIfEverySampleMatches ==
    (fn.op = "infer" /\ fn.done /\ fn.guess = "object")
    => /\ ~fn.raised
       /\ fn.out \in {<<"DATE">>, <<"STRING">>}
       /\ fn.out = <<"DATE">>
             => \A i \in 1..Len(fn.samples) :
                   fn.samples[i] # NaN => LooksLikeDate(fn.samples[i])

\* number of characters ch in a text
RECURSIVE RunsCount(_, _)
RunsCount(runs, ch) ==
    IF runs = <<>> THEN 0
    ELSE (IF Head(runs).c = ch THEN Head(runs).n ELSE 0)
         + RunsCount(Tail(runs), ch)

\* C24: every cell is encoded by its type: a null as NULL, a boolean as
\* TRUE or FALSE, a number as its text, a timestamp as a quoted timestamp,
\* anything else as a quoted text with every quote and every backslash
\* doubled, and cut to the cap of 10,000 characters (at most twice the cap
\* once doubled).
C24_CellEncodedByType ==
    (fn.op = "encode" /\ fn.done)
    => /\ fn.cell.kind = "null" => fn.lit.form = "NULL"
       /\ fn.cell.kind = "bool"
             => fn.lit.form = (IF fn.cell.b THEN "TRUE" ELSE "FALSE")
       /\ fn.cell.kind \in {"int", "float"}
             => fn.lit.form = "number" /\ fn.lit.n = fn.cell.n
       /\ fn.cell.kind = "datetime" => fn.lit.form = "timestamp"
       /\ fn.cell.kind = "str"
             => /\ fn.lit.form = "quoted"
                /\ RunsCount(fn.lit.body, "'") % 2 = 0
                /\ RunsCount(fn.lit.body, "\\") % 2 = 0
                /\ RunsLen(fn.lit.body) <= 2 * 10000

\* C25: the loader never counts more rows than the engine took: whatever
\* the connection was when the loader was called and whatever connect()
\* answers, success_count is at most the number of rows of the chunks
\* whose INSERT the engine executed without error.
C25_SuccessNeverExceedsLanded ==
    (job.ingestion_id # 0 /\ pc \in {"chunk", "disconnect", "reconnect",
                                      "retry", "return", "audit"})
    => ld.success_count <= hist[job.ingestion_id].landed

\* C26: ensure_connected() returns True only if an open connection is
\* held afterwards, and execute_query never asks a connection that
\* disconnect() has closed to run a statement.
C26_EnsureConnectedMeansOpen ==
    /\ (fn.op = "ensure_connected" /\ fn.out = <<"True">>)
          => (sql_connection = "open" /\ conn_id \notin closed_ids)
    /\ fn.op = "execute_query" => fn.out # <<"raised_closed">>

\* C27: the registry and the answers agree: between two uploads, an entry
\* of uploaded_files_db carries the id of an upload if and only if that
\* upload was answered with success, the storage configured or not.
C27_RegisteredIffSuccess ==
    pc = "idle"
    => /\ \A id \in 1..Len(hist) :
             (\E i \in 1..Len(uploaded_files_db) :
                 uploaded_files_db[i].ingestion_id = id)
             <=> hist[id].outcome = "completed"
       /\ (response.code = 200 /\ response.ingestion_id # 0)
             => \E i \in 1..Len(uploaded_files_db) :
                   uploaded_files_db[i].ingestion_id = response.ingestion_id

\* C28: cancelling a cleaning job is final: once cancel_job has stored
\* "cancelled" for a job, its status stays "cancelled" whatever the
\* background task does next, and an answer of the status endpoint given
\* after the cancellation never reports pending, running or completed.
C28_CancelIsFinal ==
    /\ \A j \in cancelled : cleaning_jobs[j].status = "cancelled"
    /\ (status_answer.code = 200 /\ status_answer.cancelled)
          => status_answer.status \notin {"pending", "running", "completed"}

\* C29: for any frame the column list of the INSERT equals the column
\* list of the CREATE built from the same frame, name by name and in
\* order: one name per source column, none of them a system name and none
\* beginning with an underscore, followed by _ingestion_id and
\* _processed_at.
C29_InsertColumnsEqualCreateColumns ==
    (fn.op = "columns" /\ fn.done)
    => /\ fn.insert_cols = fn.create_cols
       /\ Len(fn.insert_cols) = Len(fn.samples) + 2
       /\ SubSeq(fn.insert_cols, Len(fn.samples) + 1, Len(fn.samples) + 2)
             = <<ingestion_id_col, processed_at_col>>
       /\ \A i \in 1..Len(fn.samples) :
             /\ fn.insert_cols[i] \notin {ingestion_id_col, processed_at_col}
             /\ fn.insert_cols[i] # <<>>
             /\ fn.insert_cols[i][1] # "_"

\* a frame with a source column named _ingestion_id and one that needs
\* renaming has gone through both functions
C29_Witness ==
    /\ fn.op = "columns"
    /\ fn.done
    /\ fn.samples = <<ingestion_id_col, processed_at_col>>
    /\ Len(fn.insert_cols) = 4
    /\ fn.insert_cols[1] # fn.samples[1]

\* rows of the slices that start at the given offsets
RECURSIVE RowsOf(_, _)
RowsOf(nrows, offsets) ==
    IF offsets = <<>> THEN 0
    ELSE ChunkLen(nrows, Head(offsets)) + RowsOf(nrows, Tail(offsets))

\* C30: the chunks are the contiguous slices at offsets 0, 20,000,
\* 40,000, ..., each of 1 to 20,000 rows, together every row once; a chunk
\* is counted at most once, on its first attempt or on its retry; so
\* 0 <= success <= total at every point of the load, and the result
\* returned has success + errors = total.
C30_ChunkAccounting ==
    (job.ingestion_id # 0 /\ pc \in LoaderPcs \cup {"return", "audit"})
    => /\ IsPrefix(ld.attempted, Offsets(job.df.nrows))
       /\ \A k \in 1..Len(ld.attempted) :
             /\ ChunkLen(job.df.nrows, ld.attempted[k]) \in 1..chunk_size
             /\ k > 1 => ld.attempted[k] =
                             ld.attempted[k - 1]
                             + ChunkLen(job.df.nrows, ld.attempted[k - 1])
       /\ pc \in {"return", "audit"}
             => RowsOf(job.df.nrows, ld.attempted) = job.df.nrows
       /\ Cardinality({k \in ExecPositions(ld.log) : ld.log[k] # "raised"})
             <= 1
       /\ 0 <= ld.success_count
       /\ ld.success_count <= RowsOf(job.df.nrows, ld.attempted)
       /\ ld.success_count <= job.df.nrows
       /\ pc = "audit"
             => /\ job.result.total = job.df.nrows
                /\ job.result.success = ld.success_count
                /\ job.result.success + job.result.errors = job.result.total

\* a load of two chunks has returned, the rows of one chunk counted and
\* the rows of the other in error
C30_Witness ==
    /\ pc = "audit"
    /\ Len(ld.attempted) = 2
    /\ job.result.success > 0
    /\ job.result.errors > 0
    /\ job.result.success + job.result.errors = job.df.nrows
====
